---- MODULE Spec2Model ----
(***************************************************************************)
(* LunarCrushMCPService (src/app/services/lunarcrush-mcp.ts): the SSE      *)
(* session, the pending-request map and the JSON-RPC request/response      *)
(* correlation, together with the events of its environment (the event     *)
(* stream, the POST of each request, the 15 s timer of each request).      *)
(* Spec lets a client call the service freely; AnalysisSpec runs            *)
(* GeminiAIService.analyzeCryptocurrency on top of it, up to the answer of  *)
(* the action of api.analyze.tsx; PageSpec runs handleSearch and main of    *)
(* _index.tsx, which gather the tool results concurrently; ChartSpec feeds  *)
(* chart series through transformChartData of _index.tsx.                  *)
(***************************************************************************)
EXTENDS Integers, Sequences, FiniteSets, TLC

\* ---------------------------------------------------------------- bounds
MaxRequests == 2        \* requests generateId may hand out in one run
MaxChunkLines == 1      \* complete lines carried by one 'data' chunk
MaxPlan == 2            \* tool calls in a plan chosen by the model
MaxText == 3            \* tokens in the text of a model answer

\* ------------------------------------------------------- values and lines
NULL == "null"
Ids == 1..MaxRequests
NoId == 0                                \* a frame without a (truthy) id
FrameIds == Ids \cup {NoId}
Endpoints == {"/sse/message?a", "/sse/message?b"}
\* the text of an envelope line that mentions '/sse/message', less 'data: '
EnvelopeText == "{jsonrpc /sse/message}"
SessionIds == {"sess"}
ErrorValues == {"absent", "null", "errobj"}
ResultValues == {"absent", "zero", "resobj"}

\* JavaScript truthiness of a JSON value (undefined, null, 0 are falsy).
Truthy(v) == v \notin {"absent", "null", "zero"}

EndpointLine(e) ==
    [kind |-> "endpoint", ep |-> e, id |-> NoId, error |-> "absent", result |-> "absent"]
FrameLine(i, e, r) ==
    [kind |-> "frame", ep |-> NULL, id |-> i, error |-> e, result |-> r]
\* a 'data: {' line with "jsonrpc" whose text also contains '/sse/message'
EnvelopeWithPathLine ==
    [kind |-> "envelope_path", ep |-> EnvelopeText, id |-> NoId, error |-> "absent", result |-> "absent"]
BadJsonLine ==
    [kind |-> "badjson", ep |-> NULL, id |-> NoId, error |-> "absent", result |-> "absent"]
OtherLine ==
    [kind |-> "other", ep |-> NULL, id |-> NoId, error |-> "absent", result |-> "absent"]
NoLine ==
    [kind |-> "empty", ep |-> NULL, id |-> NoId, error |-> "absent", result |-> "absent"]

Frames == {FrameLine(i, e, r) : i \in FrameIds, e \in ErrorValues, r \in ResultValues}
Lines == {EndpointLine(e) : e \in Endpoints} \cup Frames
            \cup {EnvelopeWithPathLine, BadJsonLine, OtherLine}
PartialLines == {EndpointLine("/sse/message?a")}

\* line.startsWith('data: ') && line.includes('/sse/message')
IsEndpointLine(line) == line.kind \in {"endpoint", "envelope_path"}
\* line.startsWith('data: {') && line.includes('"jsonrpc"')
IsEnvelopeLine(line) == line.kind \in {"frame", "badjson", "envelope_path"}
\* JSON.parse(line.replace('data: ', '')) returns (TRUE) or throws (FALSE)
ParsesAsJson(line) == line.kind = "frame"

\* ------------------------------------------------------------- promises
\* state: none (not created), unsettled, resolved, rejected; kind: what it
\* was settled with; val: the JSON value carried (a result, an error).
NoPromise == [state |-> "none", kind |-> "none", val |-> "absent"]
Unsettled == [state |-> "unsettled", kind |-> "none", val |-> "absent"]
Resolved(k, v) == [state |-> "resolved", kind |-> k, val |-> v]
Rejected(k, v) == [state |-> "rejected", kind |-> k, val |-> v]

Settled(p) == p.state \in {"resolved", "rejected"}

\* resolve()/reject() of a Promise executor: only the first call settles it.
Settle(p, outcome) == IF p.state = "unsettled" THEN outcome ELSE p

\* ------------------------------------------------- analyses and replies
\* A TradingAnalysis: origin tells whether it was parsed from the model's
\* answer, is the fallback of parseAnalysisResponse, or is the error object
\* of handleSearch; success is "absent" where the object has no such field.
NoAnalysis ==
    [origin |-> "none", recommendation |-> "none", confidence |-> 0,
     social_sentiment |-> "none", success |-> "absent"]
\* The JSON the action of api.analyze.tsx answers with.
NoReply == [success |-> "absent", body |-> "none"]
\* The object parsed from a model answer that gives none of the fields.
NoObject ==
    [recommendation |-> "absent", hasConfidence |-> FALSE, confidence |-> 0,
     social_sentiment |-> "absent"]
\* An array of chart points, as passed to and returned by transformChartData.
ArrayOf(items) == [isArray |-> TRUE, items |-> items]
NoChart == ArrayOf(<<>>)
\* No model answer yet.
NoResponse == [kind |-> "none", text |-> <<>>, object |-> NoObject]

VARIABLES
    sessionId,        \* this.sessionId
    messageEndpoint,  \* this.messageEndpoint
    sseConnection,    \* this.sseConnection: NULL, "open" or "destroyed"
    sseResponse,      \* this.sseResponse:   NULL, "open" or "destroyed"
    pendingRequests,  \* keys of this.pendingRequests
    initPromise,      \* the promise returned by initializeConnection
    stream,           \* where the event stream stands
    buffer,           \* closure variable 'buffer' (the unterminated line)
    foundEndpoint,    \* closure variable 'foundEndpoint'
    nextId,           \* ids handed out by generateId so far
    promise,          \* promise returned by makeRequest, per request id
    post,             \* the POST of each request
    timer,            \* the 15 s timer of each request
    lastCall,         \* how the last makeRequest call ended
    dropped,          \* history: issued ids whose frame handleResponse ignored
    pc,               \* analyzeCryptocurrency: the await it stands at
    plan,             \* the tool calls being executed (toolCalls / fallbackCalls)
    idx,              \* position of the for loop over the tool calls
    fallback,         \* TRUE while executeFallbackToolCalls runs
    toolResults,      \* gatheredData.toolResults
    modelCalls,       \* callGemini invocations so far
    outcome,          \* what analyzeCryptocurrency returned or threw
    analysis,         \* the TradingAnalysis built from the model's answer
    reply,            \* what the action of api.analyze.tsx answered
    toolPromises,     \* _index.tsx: toolPromises handed to Promise.all
    analysisResponse, \* _index.tsx: analysisResponse of main
    chartData,        \* _index.tsx: the series passed to transformChartData
    passes            \* times transformChartData ran on chartData

vars == <<sessionId, messageEndpoint, sseConnection, sseResponse,
          pendingRequests, initPromise, stream, buffer, foundEndpoint,
          nextId, promise, post, timer, lastCall, dropped,
          pc, plan, idx, fallback, toolResults, modelCalls, outcome,
          analysis, reply, toolPromises, analysisResponse,
          chartData, passes>>

chartVars == <<chartData, passes>>

serviceVars == <<sessionId, messageEndpoint, sseConnection, sseResponse,
                 pendingRequests, initPromise, stream, buffer, foundEndpoint,
                 nextId, promise, post, timer, lastCall, dropped>>

driverVars == <<pc, plan, idx, fallback, toolResults, modelCalls, outcome,
                analysis, reply, toolPromises, analysisResponse,
                chartData, passes>>

ProgramInit ==
    /\ sessionId = NULL
    /\ messageEndpoint = NULL
    /\ sseConnection = NULL
    /\ sseResponse = NULL
    /\ pendingRequests = {}
    /\ initPromise = NoPromise
    /\ stream = "none"
    /\ buffer = NoLine
    /\ foundEndpoint = FALSE
    /\ nextId = 0
    /\ promise = [i \in Ids |-> NoPromise]
    /\ post = [i \in Ids |-> "none"]
    /\ timer = [i \in Ids |-> "none"]
    /\ lastCall = "ok"
    /\ dropped = {}
    /\ pc = "idle"
    /\ plan = <<>>
    /\ idx = 0
    /\ fallback = FALSE
    /\ toolResults = <<>>
    /\ modelCalls = 0
    /\ outcome = "none"
    /\ analysis = NoAnalysis
    /\ reply = NoReply
    /\ toolPromises = <<>>
    /\ analysisResponse = NoResponse

\* No series has been handed to transformChartData.
Init ==
    /\ ProgramInit
    /\ chartData = NoChart
    /\ passes = 0

\* ------------------------------------------------------------ operations

\* Variant: generateId hands out the same id twice.
GenerateIdColliding(n) == 1

\* generateId: a fresh id per call (timestamp + random suffix); n ids were
\* handed out before.
GenerateId(n) == n + 1

\* resolve(jsonData.result || jsonData)
ResolveOutcome(jsonData) ==
    IF Truthy(jsonData.result)
    THEN Resolved("result", jsonData.result)
    ELSE Resolved("envelope", "absent")

\* reject(new Error(`MCP Error: ${JSON.stringify(jsonData.error)}`))
ErrorOutcome(jsonData) == Rejected("mcp_error", jsonData.error)

\* Variant: handleResponse without the `if (jsonData.error)` branch.
HandleResponseIgnoresError(c, jsonData) ==
    IF jsonData.id # NoId /\ jsonData.id \in c.pending
    THEN [pending |-> c.pending \ {jsonData.id},
          promise |-> [c.promise EXCEPT ![jsonData.id] =
                          Settle(@, ResolveOutcome(jsonData))]]
    ELSE c

\* handleResponse on the correlator state c = [pending, promise].
HandleResponse(c, jsonData) ==
    IF jsonData.id # NoId /\ jsonData.id \in c.pending
    THEN [pending |-> c.pending \ {jsonData.id},
          promise |-> [c.promise EXCEPT ![jsonData.id] =
                          Settle(@, IF Truthy(jsonData.error)
                                    THEN ErrorOutcome(jsonData)
                                    ELSE ResolveOutcome(jsonData))]]
    ELSE c

\* One iteration of the for loop of the 'data' handler, on
\* d = [endpoint, found, pending, promise, dropped].
ProcessLine(d, line) ==
    IF IsEndpointLine(line)
    THEN [d EXCEPT !.endpoint = line.ep, !.found = TRUE]
    ELSE IF IsEnvelopeLine(line) /\ ParsesAsJson(line)
    THEN LET c == HandleResponse([pending |-> d.pending, promise |-> d.promise], line)
         IN  [d EXCEPT !.pending = c.pending, !.promise = c.promise,
                       !.dropped = IF /\ line.id \in Ids \ d.pending
                                      /\ d.promise[line.id].state # "none"
                                   THEN @ \cup {line.id} ELSE @]
    ELSE d

RECURSIVE ProcessLines(_, _)
ProcessLines(d, lines) ==
    IF lines = <<>> THEN d
    ELSE ProcessLines(ProcessLine(d, Head(lines)), Tail(lines))

\* destroy() of a request or response handle, guarded by `if (handle)`.
Destroy(h) == IF h # NULL THEN "destroyed" ELSE h

\* Variant: disconnect without pendingRequests.clear().
DisconnectKeepsPending(s) ==
    [sessionId |-> NULL,
     messageEndpoint |-> NULL,
     sseConnection |-> Destroy(s.sseConnection),
     sseResponse |-> Destroy(s.sseResponse),
     pendingRequests |-> s.pendingRequests]

\* disconnect on the session fields s.
DisconnectOf(s) ==
    [sessionId |-> NULL,
     messageEndpoint |-> NULL,
     sseConnection |-> Destroy(s.sseConnection),
     sseResponse |-> Destroy(s.sseResponse),
     pendingRequests |-> {}]

Session ==
    [sessionId |-> sessionId, messageEndpoint |-> messageEndpoint,
     sseConnection |-> sseConnection, sseResponse |-> sseResponse,
     pendingRequests |-> pendingRequests]

\* --------------------------------------------------------------- actions

streamVars == <<stream, buffer, foundEndpoint>>
requestVars == <<nextId, promise, post, timer, lastCall, dropped>>
sessionVars == <<sessionId, messageEndpoint, sseConnection, sseResponse>>

\* initializeConnection(): https.request(...) is created and ended; the
\* promise stays unsettled until a stream event settles it.
InitializeConnection ==
    /\ sseConnection = NULL
    /\ sseConnection' = "open"
    /\ initPromise' = Unsettled
    /\ stream' = "requested"
    /\ buffer' = NoLine
    /\ foundEndpoint' = FALSE
    /\ UNCHANGED <<sessionId, messageEndpoint, sseResponse, pendingRequests>>
    /\ UNCHANGED requestVars

\* Variant: the response callback without the `res.statusCode !== 200` check.
SseResponseAcceptsAnyStatus(status, sid) ==
    /\ stream = "requested"
    /\ sessionId' = sid
    /\ sseResponse' = "open"
    /\ stream' = "streaming"
    /\ buffer' = NoLine
    /\ foundEndpoint' = FALSE
    /\ UNCHANGED <<initPromise, messageEndpoint, sseConnection, pendingRequests>>
    /\ UNCHANGED requestVars
    /\ UNCHANGED driverVars

\* The response callback of the stream request: status check, session id.
SseResponse(status, sid) ==
    /\ stream = "requested"
    /\ IF status # 200
       THEN /\ initPromise' = Settle(initPromise, Rejected("sse_status", "absent"))
            /\ stream' = "refused"
            /\ UNCHANGED <<sessionId, sseResponse>>
       ELSE /\ sessionId' = sid
            /\ sseResponse' = "open"
            /\ stream' = "streaming"
            /\ UNCHANGED initPromise
    /\ buffer' = NoLine
    /\ foundEndpoint' = FALSE
    /\ UNCHANGED <<messageEndpoint, sseConnection, pendingRequests>>
    /\ UNCHANGED requestVars
    /\ UNCHANGED driverVars

\* Variant: JSON.parse is not wrapped in try/catch: at the first envelope line
\* that is not JSON the handler throws, the rest of the handler is skipped
\* and the stream is read no further.
SseDataThrowsOnBadJson(lines, open) ==
    /\ stream = "streaming"
    /\ buffer # NoLine => IF lines = <<>> THEN open = buffer ELSE Head(lines) = buffer
    /\ LET bad == {i \in 1..Len(lines) : IsEnvelopeLine(lines[i]) /\ ~IsEndpointLine(lines[i])
                                          /\ ~ParsesAsJson(lines[i])}
           done == IF bad = {} THEN lines
                   ELSE SubSeq(lines, 1, (CHOOSE i \in bad : \A j \in bad : i <= j) - 1)
           d == ProcessLines([endpoint |-> messageEndpoint, found |-> foundEndpoint,
                              pending |-> pendingRequests, promise |-> promise,
                              dropped |-> dropped], done)
       IN  /\ messageEndpoint' = d.endpoint
           /\ dropped' = d.dropped
           /\ foundEndpoint' = d.found
           /\ pendingRequests' = d.pending
           /\ promise' = d.promise
           /\ initPromise' = IF d.found /\ bad = {}
                             THEN Settle(initPromise, Resolved("void", "absent"))
                             ELSE initPromise
           /\ buffer' = IF bad = {} THEN open ELSE buffer
           /\ stream' = IF bad = {} THEN stream ELSE "errored"
    /\ UNCHANGED <<sessionId, sseConnection, sseResponse>>
    /\ UNCHANGED <<nextId, post, timer, lastCall>>
    /\ UNCHANGED driverVars

\* Variant: the 'data' handler calls resolve() without `if (foundEndpoint)`.
SseDataResolvesAlways(lines, open) ==
    /\ stream = "streaming"
    /\ buffer # NoLine => IF lines = <<>> THEN open = buffer ELSE Head(lines) = buffer
    /\ LET d == ProcessLines([endpoint |-> messageEndpoint, found |-> foundEndpoint,
                              pending |-> pendingRequests, promise |-> promise,
                              dropped |-> dropped], lines)
       IN  /\ messageEndpoint' = d.endpoint
           /\ dropped' = d.dropped
           /\ foundEndpoint' = d.found
           /\ pendingRequests' = d.pending
           /\ promise' = d.promise
           /\ initPromise' = Settle(initPromise, Resolved("void", "absent"))
    /\ buffer' = open
    /\ UNCHANGED <<sessionId, sseConnection, sseResponse, stream>>
    /\ UNCHANGED <<nextId, post, timer, lastCall>>
    /\ UNCHANGED driverVars

\* res.on('data'): lines are the complete lines of buffer + chunk, open is
\* the unterminated rest that becomes the new buffer.
SseData(lines, open) ==
    /\ stream = "streaming"
    /\ buffer # NoLine => IF lines = <<>> THEN open = buffer ELSE Head(lines) = buffer
    /\ LET d == ProcessLines([endpoint |-> messageEndpoint, found |-> foundEndpoint,
                              pending |-> pendingRequests, promise |-> promise,
                              dropped |-> dropped], lines)
       IN  /\ messageEndpoint' = d.endpoint
           /\ dropped' = d.dropped
           /\ foundEndpoint' = d.found
           /\ pendingRequests' = d.pending
           /\ promise' = d.promise
           /\ initPromise' = IF d.found THEN Settle(initPromise, Resolved("void", "absent"))
                             ELSE initPromise
    /\ buffer' = open
    /\ UNCHANGED <<sessionId, sseConnection, sseResponse, stream>>
    /\ UNCHANGED <<nextId, post, timer, lastCall>>
    /\ UNCHANGED driverVars

\* res.on('error', reject)
SseResponseError ==
    /\ stream = "streaming"
    /\ initPromise' = Settle(initPromise, Rejected("sse_error", "absent"))
    /\ stream' = "errored"
    /\ UNCHANGED <<pendingRequests, buffer, foundEndpoint>>
    /\ UNCHANGED sessionVars
    /\ UNCHANGED requestVars
    /\ UNCHANGED driverVars

\* res.on('end'): logs only.
SseEnd ==
    /\ stream = "streaming"
    /\ stream' = "ended"
    /\ UNCHANGED <<pendingRequests, initPromise, buffer, foundEndpoint>>
    /\ UNCHANGED sessionVars
    /\ UNCHANGED requestVars
    /\ UNCHANGED driverVars

\* this.sseConnection.on('error', reject): the request fails before a
\* response, or is torn down by destroy().
SseConnectionError ==
    /\ stream \in {"requested", "destroyed"}
    /\ initPromise' = Settle(initPromise, Rejected("sse_error", "absent"))
    /\ stream' = "errored"
    /\ UNCHANGED <<pendingRequests, buffer, foundEndpoint>>
    /\ UNCHANGED sessionVars
    /\ UNCHANGED requestVars
    /\ UNCHANGED driverVars

\* this.sseConnection.setTimeout(30000, ...): the socket idles for 30 s.
SseTimeout ==
    /\ stream \in {"requested", "streaming"}
    /\ initPromise' = Settle(initPromise, Rejected("sse_timeout", "absent"))
    /\ UNCHANGED <<pendingRequests, stream, buffer, foundEndpoint>>
    /\ UNCHANGED sessionVars
    /\ UNCHANGED requestVars
    /\ UNCHANGED driverVars

\* Variant: makeRequest without the `if (!this.messageEndpoint)` check.
MakeRequestUnchecked ==
    /\ LET requestId == GenerateId(nextId)
       IN  /\ nextId < MaxRequests
           /\ nextId' = nextId + 1
           /\ pendingRequests' = pendingRequests \cup {requestId}
           /\ promise' = [promise EXCEPT ![requestId] = Unsettled]
           /\ post' = [post EXCEPT ![requestId] = "sent"]
           /\ timer' = [timer EXCEPT ![requestId] = "armed"]
           /\ lastCall' = "ok"
    /\ UNCHANGED <<initPromise, dropped>>
    /\ UNCHANGED sessionVars
    /\ UNCHANGED streamVars
    /\ UNCHANGED driverVars

\* makeRequest(method, params): throws when there is no endpoint, else
\* registers the request, sends the POST and arms the timer.
MakeRequest ==
    /\ IF messageEndpoint = NULL
       THEN /\ lastCall' = "not_initialized"
            /\ UNCHANGED <<pendingRequests, nextId, promise, post, timer>>
       ELSE LET requestId == GenerateId(nextId)
            IN  /\ nextId < MaxRequests
                /\ nextId' = nextId + 1
                /\ pendingRequests' = pendingRequests \cup {requestId}
                /\ promise' = [promise EXCEPT ![requestId] = Unsettled]
                /\ post' = [post EXCEPT ![requestId] = "sent"]
                /\ timer' = [timer EXCEPT ![requestId] = "armed"]
                /\ lastCall' = "ok"
    /\ UNCHANGED <<initPromise, dropped>>
    /\ UNCHANGED sessionVars
    /\ UNCHANGED streamVars
    /\ UNCHANGED driverVars

\* Variant: the POST's own 200/202 answer completes the request.
PostResponseResolves(i, status) ==
    /\ post[i] = "sent"
    /\ post' = [post EXCEPT ![i] = IF status # 202 /\ status # 200
                                   THEN "failing" ELSE "accepted"]
    /\ IF status # 202 /\ status # 200
       THEN UNCHANGED <<pendingRequests, promise>>
       ELSE /\ pendingRequests' = pendingRequests \ {i}
            /\ promise' = [promise EXCEPT ![i] = Settle(@, Resolved("envelope", "absent"))]
    /\ UNCHANGED <<initPromise, nextId, timer, lastCall, dropped>>
    /\ UNCHANGED sessionVars
    /\ UNCHANGED streamVars
    /\ UNCHANGED driverVars

\* The response callback of the POST: 200/202 does nothing, any other
\* status waits for the end of the body.
PostResponse(i, status) ==
    /\ post[i] = "sent"
    /\ post' = [post EXCEPT ![i] = IF status # 202 /\ status # 200
                                   THEN "failing" ELSE "accepted"]
    /\ UNCHANGED <<pendingRequests, initPromise, nextId, promise, timer, lastCall, dropped>>
    /\ UNCHANGED sessionVars
    /\ UNCHANGED streamVars
    /\ UNCHANGED driverVars

\* Variant: the failure path without pendingRequests.delete(requestId).
PostResponseEndKeepsEntry(i) ==
    /\ post[i] = "failing"
    /\ promise' = [promise EXCEPT ![i] = Settle(@, Rejected("post_status", "absent"))]
    /\ post' = [post EXCEPT ![i] = "failed"]
    /\ UNCHANGED <<pendingRequests, initPromise, nextId, timer, lastCall, dropped>>
    /\ UNCHANGED sessionVars
    /\ UNCHANGED streamVars
    /\ UNCHANGED driverVars

\* res.on('end') of a POST answered with a failure status.
PostResponseEnd(i) ==
    /\ post[i] = "failing"
    /\ pendingRequests' = pendingRequests \ {i}
    /\ promise' = [promise EXCEPT ![i] = Settle(@, Rejected("post_status", "absent"))]
    /\ post' = [post EXCEPT ![i] = "failed"]
    /\ UNCHANGED <<initPromise, nextId, timer, lastCall, dropped>>
    /\ UNCHANGED sessionVars
    /\ UNCHANGED streamVars
    /\ UNCHANGED driverVars

\* req.on('error') of the POST.
PostError(i) ==
    /\ post[i] \in {"sent", "failing"}
    /\ pendingRequests' = pendingRequests \ {i}
    /\ promise' = [promise EXCEPT ![i] = Settle(@, Rejected("post_error", "absent"))]
    /\ post' = [post EXCEPT ![i] = "failed"]
    /\ UNCHANGED <<initPromise, nextId, timer, lastCall, dropped>>
    /\ UNCHANGED sessionVars
    /\ UNCHANGED streamVars
    /\ UNCHANGED driverVars

\* Variant: the timer rejects without the `has(requestId)` test.
RequestTimeoutUnguarded(i) ==
    /\ timer[i] = "armed"
    /\ timer' = [timer EXCEPT ![i] = "fired"]
    /\ pendingRequests' = pendingRequests \ {i}
    /\ promise' = [promise EXCEPT ![i] = Settle(@, Rejected("timeout", "absent"))]
    /\ UNCHANGED <<initPromise, nextId, post, lastCall, dropped>>
    /\ UNCHANGED sessionVars
    /\ UNCHANGED streamVars
    /\ UNCHANGED driverVars

\* Variant: the timer empties the whole map instead of deleting its own id.
RequestTimeoutClearsMap(i) ==
    /\ timer[i] = "armed"
    /\ timer' = [timer EXCEPT ![i] = "fired"]
    /\ IF i \in pendingRequests
       THEN /\ pendingRequests' = {}
            /\ promise' = [promise EXCEPT ![i] = Settle(@, Rejected("timeout", "absent"))]
       ELSE UNCHANGED <<pendingRequests, promise>>
    /\ UNCHANGED <<initPromise, nextId, post, lastCall, dropped>>
    /\ UNCHANGED sessionVars
    /\ UNCHANGED streamVars
    /\ UNCHANGED driverVars

\* Variant: the timer rejects but leaves the entry in the map.
RequestTimeoutKeepsEntry(i) ==
    /\ timer[i] = "armed"
    /\ timer' = [timer EXCEPT ![i] = "fired"]
    /\ IF i \in pendingRequests
       THEN /\ promise' = [promise EXCEPT ![i] = Settle(@, Rejected("timeout", "absent"))]
            /\ UNCHANGED pendingRequests
       ELSE UNCHANGED <<pendingRequests, promise>>
    /\ UNCHANGED <<initPromise, nextId, post, lastCall, dropped>>
    /\ UNCHANGED sessionVars
    /\ UNCHANGED streamVars
    /\ UNCHANGED driverVars

\* The setTimeout(..., 15000) callback of a request.
RequestTimeout(i) ==
    /\ timer[i] = "armed"
    /\ timer' = [timer EXCEPT ![i] = "fired"]
    /\ IF i \in pendingRequests
       THEN /\ pendingRequests' = pendingRequests \ {i}
            /\ promise' = [promise EXCEPT ![i] = Settle(@, Rejected("timeout", "absent"))]
       ELSE UNCHANGED <<pendingRequests, promise>>
    /\ UNCHANGED <<initPromise, nextId, post, lastCall, dropped>>
    /\ UNCHANGED sessionVars
    /\ UNCHANGED streamVars
    /\ UNCHANGED driverVars

\* disconnect(): destroys the handles, clears the session and the map.
Disconnect ==
    /\ LET s == DisconnectOf(Session)
       IN  /\ sessionId' = s.sessionId
           /\ messageEndpoint' = s.messageEndpoint
           /\ sseConnection' = s.sseConnection
           /\ sseResponse' = s.sseResponse
           /\ pendingRequests' = s.pendingRequests
    /\ stream' = IF stream \in {"requested", "streaming"} THEN "destroyed" ELSE stream
    /\ UNCHANGED <<initPromise, buffer, foundEndpoint>>
    /\ UNCHANGED requestVars

Chunks ==
    {<<ls, open>> : ls \in UNION {[1..n -> Lines] : n \in 0..MaxChunkLines},
                    open \in PartialLines \cup {NoLine}}

\* The service used directly by a client: one connection per service object.
ClientInitializeConnection == InitializeConnection /\ UNCHANGED driverVars
ClientDisconnect == Disconnect /\ UNCHANGED driverVars

Next ==
    \/ ClientInitializeConnection
    \/ \E status \in {200, 401}, sid \in SessionIds : SseResponse(status, sid)
    \/ \E c \in Chunks : SseData(c[1], c[2])
    \/ SseResponseError
    \/ SseEnd
    \/ SseConnectionError
    \/ SseTimeout
    \/ MakeRequest
    \/ \E i \in Ids, status \in {200, 202, 500} : PostResponse(i, status)
    \/ \E i \in Ids : PostResponseEnd(i)
    \/ \E i \in Ids : PostError(i)
    \/ \E i \in Ids : RequestTimeout(i)
    \/ ClientDisconnect

Spec == Init /\ [][Next]_vars

TypeOK ==
    /\ sessionId \in SessionIds \cup {NULL}
    /\ messageEndpoint \in Endpoints \cup {EnvelopeText, NULL}
    /\ pendingRequests \subseteq Ids
    /\ nextId \in 0..MaxRequests

\* ============================================ GeminiAIService (the driver)
\* analyzeCryptocurrency and what it awaits. The service calls it awaits
\* (listAvailableTools, callTool) and the model calls are settled by the
\* environment with one of the outcomes their promises can have.

PlannedTools == {"topic", "time_series"}
Plans == UNION {[1..n -> PlannedTools] : n \in 0..MaxPlan}
\* fallbackCalls of executeFallbackToolCalls
FallbackCalls == <<"cryptocurrencies", "topic">>
\* How a promise of makeRequest can settle (see HandleResponse, RequestTimeout).
CallOutcomes == {Resolved("result", "resobj"), Rejected("mcp_error", "errobj"),
                 Rejected("timeout", "absent")}
\* callGemini: fetch answers !response.ok, or the text holds a JSON array of
\* tool calls, no array at all, or an array that JSON.parse rejects.
SelectionResponses == {"http_error", "plan", "no_array", "bad_json"}
\* ----------------------------------------------- the model's answer text
\* The text of an answer is a sequence of tokens: "{" an opening brace,
\* "k{" a key followed by an opening brace ("key_metrics":{), "}" a closing
\* brace, "s" one or more fields of which the last has a string value (it
\* ends with a quote), "n" one or more fields of which the last has a number
\* value, "x" text without brace (prose, or a string that was cut off).
TextTokens == {"{", "k{", "}", "s", "n", "x"}
Texts == UNION {[1..n -> TextTokens] : n \in 0..MaxText}

Max(S) == CHOOSE x \in S : \A y \in S : y <= x
Min(S) == CHOOSE x \in S : \A y \in S : x <= y

\* text.match(/\{[\s\S]*\}/): from the first '{' to the last '}', <<>> for null
JsonMatch(text) ==
    LET opens == {i \in 1..Len(text) : text[i] \in {"{", "k{"}}
        closes == {j \in 1..Len(text) : text[j] = "}"}
    IN  IF opens = {} \/ closes = {} THEN <<>>
        ELSE IF Max(closes) < Min(opens) THEN <<>>
        ELSE <<"{">> \o SubSeq(text, Min(opens) + 1, Max(closes))

\* `if (!jsonText.endsWith('}'))`: cut back to the last '"}' and close again
RepairTruncated(jsonText) ==
    IF jsonText[Len(jsonText)] # "}"
    THEN LET lastCompleteField ==
                 {i \in 1..(Len(jsonText) - 1) :
                      jsonText[i] = "s" /\ jsonText[i + 1] = "}"}
         IN  IF lastCompleteField # {}
             THEN SubSeq(jsonText, 1, Max(lastCompleteField) + 1) \o <<"}">>
             ELSE jsonText
    ELSE jsonText

\* The nesting depth after the tokens from position i on, -1 when the
\* tokens are no JSON object.
RECURSIVE ScanObject(_, _, _)
ScanObject(tokens, i, depth) ==
    IF i > Len(tokens) THEN depth
    ELSE IF i = 1
         THEN IF tokens[i] = "{" THEN ScanObject(tokens, i + 1, 1) ELSE -1
    ELSE IF depth = 0 THEN -1
    ELSE IF tokens[i] = "k{" THEN ScanObject(tokens, i + 1, depth + 1)
    ELSE IF tokens[i] = "}" THEN ScanObject(tokens, i + 1, depth - 1)
    ELSE IF tokens[i] \in {"s", "n"} THEN ScanObject(tokens, i + 1, depth)
    ELSE -1

\* JSON.parse(jsonText) returns (TRUE) or throws (FALSE)
JsonParses(jsonText) == jsonText # <<>> /\ ScanObject(jsonText, 1, 0) = 0

\* The object written in jsonText has fields.
HasFields(jsonText) == \E i \in 1..Len(jsonText) : jsonText[i] \in {"s", "n"}

\* What the model may put in the fields of the object it answers with.
Recommendations == {"BUY", "SELL", "HOLD"}
ModelConfidences == {-5, 0, 82, 100, 150}
ModelObjects ==
    {[recommendation |-> r, hasConfidence |-> TRUE, confidence |-> c,
      social_sentiment |-> s] :
         r \in Recommendations \cup {"absent"}, c \in ModelConfidences,
         s \in {"absent", "bearish"}}
    \cup {[NoObject EXCEPT !.recommendation = r] : r \in Recommendations \cup {"absent"}}

\* A settled model call: fetch answered !response.ok, the answer has no
\* candidate text, or it has a text, and the object JSON.parse would give.
HttpError == [kind |-> "http_error", text |-> <<>>, object |-> NoObject]
NoCandidates == [kind |-> "no_candidates", text |-> <<>>, object |-> NoObject]
TextResponse(t, o) == [kind |-> "text", text |-> t, object |-> o]
AnalysisResponses ==
    {HttpError, NoCandidates}
    \cup {TextResponse(t, NoObject) : t \in Texts}
    \cup {TextResponse(t, o) :
             t \in {u \in Texts : /\ JsonParses(JsonMatch(u))
                                   /\ HasFields(JsonMatch(u))},
             o \in ModelObjects}

\* ------------------------------------------------- parseAnalysisResponse
DefaultConfidence == 50      \* analysis.confidence || 50
FallbackConfidence == 50     \* confidence: 50 of the fallback response
ErrorConfidence == 0         \* confidence: 0 of handleSearch's error analysis

\* field || d on a text field of the parsed object
OrDefault(v, d) == IF v = "absent" THEN d ELSE v
\* analysis.confidence || 50: undefined and 0 are falsy
ConfidenceOrDefault(o) ==
    IF o.hasConfidence /\ o.confidence # 0 THEN o.confidence ELSE DefaultConfidence

\* The object of the `return` in the try block, from the parsed object o.
Formatted(o, success) ==
    [origin |-> "parsed",
     recommendation |-> OrDefault(o.recommendation, "HOLD"),
     confidence |-> ConfidenceOrDefault(o),
     social_sentiment |-> OrDefault(o.social_sentiment, "neutral"),
     success |-> success]

\* A throw inside the try block.
Thrown == [NoAnalysis EXCEPT !.origin = "thrown"]

\* Variant: the fallback carries the confidence of the error analysis.
FallbackAnalysisZero(success) ==
    [origin |-> "fallback", recommendation |-> "HOLD",
     confidence |-> ErrorConfidence, social_sentiment |-> "neutral",
     success |-> success]

\* The object of the `return` in the catch block.
FallbackAnalysis(success) ==
    [origin |-> "fallback", recommendation |-> "HOLD",
     confidence |-> FallbackConfidence, social_sentiment |-> "neutral",
     success |-> success]

\* The try block of parseAnalysisResponse in _index.tsx.
TryParseAnalysisResponse(response) ==
    IF response.kind # "text" \/ response.text = <<>> THEN Thrown
    ELSE LET jsonMatch == JsonMatch(response.text)
         IN  IF jsonMatch = <<>> THEN Thrown
             ELSE IF ~JsonParses(RepairTruncated(jsonMatch)) THEN Thrown
             ELSE Formatted(response.object, "true")

\* Variant: parseAnalysisResponse without its catch block.
ParseAnalysisResponseRethrows(response) == TryParseAnalysisResponse(response)

\* parseAnalysisResponse of _index.tsx: try, and the fallback on any throw.
ParseAnalysisResponse(response) ==
    LET a == TryParseAnalysisResponse(response)
    IN  IF a.origin = "thrown" THEN FallbackAnalysis("true") ELSE a

\* parseAnalysisResponse of GeminiAIService: no repair, no success field.
ParseAnalysisResponseOfService(response) ==
    IF response.kind # "text" \/ response.text = <<>> THEN FallbackAnalysis("absent")
    ELSE LET jsonMatch == JsonMatch(response.text)
         IN  IF jsonMatch = <<>> THEN FallbackAnalysis("absent")
             ELSE IF ~JsonParses(jsonMatch) THEN FallbackAnalysis("absent")
             ELSE Formatted(response.object, "absent")

\* The analysis handleSearch sets in its catch block.
ErrorAnalysis ==
    [origin |-> "error", recommendation |-> "HOLD",
     confidence |-> ErrorConfidence, social_sentiment |-> "neutral",
     success |-> "false"]

\* Variant: an exit path that skips the finally block.
FinallySkipped(how) ==
    /\ pc' = "done"
    /\ outcome' = how
    /\ UNCHANGED <<pendingRequests, stream>>
    /\ UNCHANGED sessionVars
    /\ UNCHANGED <<initPromise, buffer, foundEndpoint>>
    /\ UNCHANGED requestVars

\* The exits of analyzeCryptocurrency: return or rethrow, then the finally
\* block calls this.mcpService.disconnect().
Finally(how) ==
    /\ pc' = "done"
    /\ outcome' = how
    /\ Disconnect

\* analyzeCryptocurrency up to `await this.mcpService.initializeConnection()`.
AnalyzeCryptocurrency ==
    /\ pc = "idle"
    /\ InitializeConnection
    /\ pc' = "connecting"
    /\ UNCHANGED <<plan, idx, fallback, toolResults, modelCalls, outcome>>
    /\ UNCHANGED <<analysis, reply, toolPromises, analysisResponse>>
    /\ UNCHANGED chartVars

\* initializeConnection settled: orchestrateAnalysis starts with
\* listAvailableTools, or the rejection is rethrown.
ConnectionSettled ==
    /\ pc = "connecting"
    /\ Settled(initPromise)
    /\ IF initPromise.state = "resolved"
       THEN /\ pc' = "listing"
            /\ UNCHANGED <<outcome, pendingRequests, stream>>
            /\ UNCHANGED sessionVars
            /\ UNCHANGED <<initPromise, buffer, foundEndpoint>>
            /\ UNCHANGED requestVars
       ELSE Finally("thrown")
    /\ UNCHANGED <<plan, idx, fallback, toolResults, modelCalls>>
    /\ UNCHANGED <<analysis, reply, toolPromises, analysisResponse>>
    /\ UNCHANGED chartVars

\* Variant: orchestrateAnalysis goes on after a failed listAvailableTools.
ListSettledIgnoresFailure(r) ==
    /\ pc = "listing"
    /\ pc' = "selecting"
    /\ modelCalls' = modelCalls + 1
    /\ UNCHANGED <<outcome, pendingRequests, stream>>
    /\ UNCHANGED sessionVars
    /\ UNCHANGED <<initPromise, buffer, foundEndpoint>>
    /\ UNCHANGED requestVars
    /\ UNCHANGED <<plan, idx, fallback, toolResults>>
    /\ UNCHANGED <<analysis, reply, toolPromises, analysisResponse>>
    /\ UNCHANGED chartVars

\* listAvailableTools settled: the first callGemini is issued, or the error
\* leaves orchestrateAnalysis.
ListSettled(r) ==
    /\ pc = "listing"
    /\ IF r.state = "resolved"
       THEN /\ pc' = "selecting"
            /\ modelCalls' = modelCalls + 1
            /\ UNCHANGED <<outcome, pendingRequests, stream>>
            /\ UNCHANGED sessionVars
            /\ UNCHANGED <<initPromise, buffer, foundEndpoint>>
            /\ UNCHANGED requestVars
       ELSE /\ Finally("thrown")
            /\ UNCHANGED modelCalls
    /\ UNCHANGED <<plan, idx, fallback, toolResults>>
    /\ UNCHANGED <<analysis, reply, toolPromises, analysisResponse>>
    /\ UNCHANGED chartVars

\* After the loop over the tool calls: createAnalysisPrompt and callGemini.
\* Otherwise the next callTool is awaited.
AfterToolCall(calls, i) ==
    IF i > Len(calls)
    THEN /\ pc' = "analyzing"
         /\ modelCalls' = modelCalls + 1
    ELSE /\ pc' = "executing"
         /\ UNCHANGED modelCalls

\* The tool-selection callGemini settled: executeGeminiToolChoices parses the
\* plan or turns to executeFallbackToolCalls; a failed model call is thrown.
SelectionSettled(resp, p) ==
    /\ pc = "selecting"
    /\ IF resp = "http_error"
       THEN /\ Finally("thrown")
            /\ UNCHANGED <<plan, idx, fallback, modelCalls>>
       ELSE /\ LET calls == IF resp = "plan" THEN p ELSE FallbackCalls
               IN  /\ plan' = calls
                   /\ idx' = 1
                   /\ fallback' = (resp # "plan")
                   /\ AfterToolCall(calls, 1)
            /\ UNCHANGED <<outcome, pendingRequests, stream>>
            /\ UNCHANGED sessionVars
            /\ UNCHANGED <<initPromise, buffer, foundEndpoint>>
            /\ UNCHANGED requestVars
    /\ UNCHANGED toolResults
    /\ UNCHANGED <<analysis, reply, toolPromises, analysisResponse>>
    /\ UNCHANGED chartVars

\* Variant: the loops have no inner try/catch, a failed callTool is thrown.
ToolSettledRethrows(r) ==
    /\ pc = "executing"
    /\ IF r.state = "resolved"
       THEN /\ toolResults' =
                  Append(toolResults, [tool |-> plan[idx], kind |-> "result", val |-> r.val])
            /\ idx' = idx + 1
            /\ AfterToolCall(plan, idx + 1)
            /\ UNCHANGED <<outcome, pendingRequests, stream>>
            /\ UNCHANGED sessionVars
            /\ UNCHANGED <<initPromise, buffer, foundEndpoint>>
            /\ UNCHANGED requestVars
       ELSE /\ Finally("thrown")
            /\ UNCHANGED <<toolResults, idx, modelCalls>>
    /\ UNCHANGED <<plan, fallback>>
    /\ UNCHANGED <<analysis, reply, toolPromises, analysisResponse>>
    /\ UNCHANGED chartVars

\* The awaited callTool settled: the result is pushed; an error is pushed by
\* the planned loop and only logged by the fallback loop.
ToolSettled(r) ==
    /\ pc = "executing"
    /\ toolResults' =
          IF r.state = "resolved"
          THEN Append(toolResults, [tool |-> plan[idx], kind |-> "result", val |-> r.val])
          ELSE IF fallback THEN toolResults
          ELSE Append(toolResults, [tool |-> plan[idx], kind |-> "error", val |-> r.kind])
    /\ idx' = idx + 1
    /\ AfterToolCall(plan, idx + 1)
    /\ UNCHANGED <<plan, fallback, outcome, pendingRequests, stream>>
    /\ UNCHANGED <<analysis, reply, toolPromises, analysisResponse>>
    /\ UNCHANGED chartVars
    /\ UNCHANGED sessionVars
    /\ UNCHANGED <<initPromise, buffer, foundEndpoint>>
    /\ UNCHANGED requestVars

\* Variant: a failed analysis call is answered with the fallback analysis.
AnalysisSettledFallsBack(resp) ==
    /\ pc = "analyzing"
    /\ Finally("returned")
    /\ analysis' = ParseAnalysisResponseOfService(resp)
    /\ UNCHANGED <<plan, idx, fallback, toolResults, modelCalls>>
    /\ UNCHANGED <<reply, toolPromises, analysisResponse>>
    /\ UNCHANGED chartVars

\* The analysis callGemini settled: a failed call is thrown, any text is
\* turned into an analysis by parseAnalysisResponse (parsed or fallback).
AnalysisSettled(resp) ==
    /\ pc = "analyzing"
    /\ IF resp.kind = "http_error"
       THEN /\ Finally("thrown")
            /\ UNCHANGED analysis
       ELSE /\ Finally("returned")
            /\ analysis' = ParseAnalysisResponseOfService(resp)
    /\ UNCHANGED <<plan, idx, fallback, toolResults, modelCalls>>
    /\ UNCHANGED <<reply, toolPromises, analysisResponse>>
    /\ UNCHANGED chartVars

\* The action of api.analyze.tsx after analyzeCryptocurrency settled: the
\* analysis is wrapped with success true, an error with success false.
ActionReturns ==
    /\ pc = "done"
    /\ pc' = "replied"
    /\ reply' = IF outcome = "returned"
                THEN [success |-> "true", body |-> "analysis"]
                ELSE [success |-> "false", body |-> "error"]
    /\ UNCHANGED <<plan, idx, fallback, toolResults, modelCalls, outcome>>
    /\ UNCHANGED <<analysis, toolPromises, analysisResponse>>
    /\ UNCHANGED chartVars
    /\ UNCHANGED <<pendingRequests, initPromise>>
    /\ UNCHANGED sessionVars
    /\ UNCHANGED streamVars
    /\ UNCHANGED requestVars

\* What formData.get('symbol') and the two process.env keys may hold.
Symbols == {"null", "BTC"}
KeyValues == {"absent", "key"}

\* The action of api.analyze.tsx answering before any service exists: the
\* symbol is missing (status 400) or an API key is (status 500).  Neither
\* body has a success field.  With all three present the action goes on to
\* analyzeCryptocurrency.
ActionRejects(symbol, lunarcrushKey, geminiKey) ==
    /\ pc = "idle"
    /\ ~Truthy(symbol) \/ ~Truthy(lunarcrushKey) \/ ~Truthy(geminiKey)
    /\ pc' = "replied"
    /\ reply' = IF ~Truthy(symbol)
                THEN [success |-> "absent", body |-> "Symbol is required"]
                ELSE [success |-> "absent", body |-> "API keys not configured"]
    /\ UNCHANGED <<plan, idx, fallback, toolResults, modelCalls, outcome>>
    /\ UNCHANGED <<analysis, toolPromises, analysisResponse>>
    /\ UNCHANGED chartVars
    /\ UNCHANGED serviceVars

AnalysisNext ==
    \/ AnalyzeCryptocurrency
    \/ \E symbol \in Symbols, lunarcrushKey \in KeyValues, geminiKey \in KeyValues :
          ActionRejects(symbol, lunarcrushKey, geminiKey)
    \/ ConnectionSettled
    \/ \E r \in CallOutcomes : ListSettled(r)
    \/ \E resp \in SelectionResponses, p \in Plans : SelectionSettled(resp, p)
    \/ \E r \in CallOutcomes : ToolSettled(r)
    \/ \E resp \in AnalysisResponses : AnalysisSettled(resp)
    \/ ActionReturns
    \/ \E status \in {200, 401}, sid \in SessionIds : SseResponse(status, sid)
    \/ \E c \in Chunks : SseData(c[1], c[2])
    \/ SseResponseError
    \/ SseEnd
    \/ SseConnectionError
    \/ SseTimeout

AnalysisSpec == Init /\ [][AnalysisNext]_vars

\* ========================================= _index.tsx (the page's driver)
\* handleSearch and main of _index.tsx: the model calls go through the
\* GoogleGenAI client, the tool calls through the callTool of the useMcp
\* hook, all planned calls at once; LunarCrushMCPService is not used.

\* The value a mapped tool promise resolves with: its call succeeded or failed.
ToolEntry(tool, r) ==
    IF r.state = "resolved"
    THEN [tool |-> tool, kind |-> "result", val |-> r.val]
    ELSE [tool |-> tool, kind |-> "error", val |-> r.kind]
PendingEntry(tool) == [tool |-> tool, kind |-> "pending", val |-> "absent"]

\* The catch block of handleSearch: main rejected.
HandleSearchCatch ==
    /\ pc' = "shown"
    /\ outcome' = "thrown"
    /\ analysis' = ErrorAnalysis

\* handleSearch up to main's first `await geminiFlashResponse(...)`.
HandleSearch ==
    /\ pc = "idle"
    /\ pc' = "page_selecting"
    /\ modelCalls' = modelCalls + 1
    /\ UNCHANGED <<plan, idx, fallback, toolResults, outcome>>
    /\ UNCHANGED <<analysis, reply, toolPromises, analysisResponse>>
    /\ UNCHANGED chartVars
    /\ UNCHANGED serviceVars

\* Variant: main goes on as soon as one tool promise has settled (a race
\* instead of Promise.all).
PageAnySettled(entries) ==
    IF entries = <<>> \/ \E k \in 1..Len(entries) : entries[k].kind # "pending"
    THEN /\ toolResults' = entries
         /\ modelCalls' = modelCalls + 1
         /\ pc' = "page_analyzing"
    ELSE /\ pc' = "gathering"
         /\ UNCHANGED <<toolResults, modelCalls>>

\* main after Promise.all(toolPromises) resolved: the analysis model call.
PageAllSettled(entries) ==
    IF \A k \in 1..Len(entries) : entries[k].kind # "pending"
    THEN /\ toolResults' = entries
         /\ modelCalls' = modelCalls + 1
         /\ pc' = "page_analyzing"
    ELSE /\ pc' = "gathering"
         /\ UNCHANGED <<toolResults, modelCalls>>

\* The tool-selection call settled: executeGeminiToolChoices of _index.tsx
\* maps the planned calls to promises; without a parsable array it calls
\* this.executeFallbackToolCalls, which is no function there (`this` is
\* undefined in the module's function), in the try block and in the catch
\* block alike, so that it rejects.
PageSelectionSettled(resp, p) ==
    /\ pc = "page_selecting"
    /\ IF resp = "plan"
       THEN /\ plan' = p
            /\ toolPromises' = [k \in 1..Len(p) |-> PendingEntry(p[k])]
            /\ PageAllSettled(toolPromises')
            /\ UNCHANGED <<outcome, analysis>>
       ELSE /\ HandleSearchCatch
            /\ UNCHANGED <<plan, toolPromises, toolResults, modelCalls>>
    /\ UNCHANGED <<idx, fallback, reply, analysisResponse>>
    /\ UNCHANGED chartVars
    /\ UNCHANGED serviceVars

\* Variant: the entries are collected in the order the calls complete (each
\* mapped promise pushes its entry instead of returning it).
PageToolSettledInCompletionOrder(k, r) ==
    /\ pc = "gathering"
    /\ k \in 1..Len(toolPromises)
    /\ toolPromises[k].kind = "pending"
    /\ LET slot == Min({m \in 1..Len(toolPromises) : toolPromises[m].kind = "pending"})
       IN  toolPromises' = [toolPromises EXCEPT ![slot] = ToolEntry(plan[k], r)]
    /\ PageAllSettled(toolPromises')
    /\ UNCHANGED <<plan, idx, fallback, outcome, analysis, reply, analysisResponse>>
    /\ UNCHANGED chartVars
    /\ UNCHANGED serviceVars

\* A callTool of the hook settled: its mapped promise resolves with the
\* result entry or the error entry.
PageToolSettled(k, r) ==
    /\ pc = "gathering"
    /\ k \in 1..Len(toolPromises)
    /\ toolPromises[k].kind = "pending"
    /\ toolPromises' = [toolPromises EXCEPT ![k] = ToolEntry(plan[k], r)]
    /\ PageAllSettled(toolPromises')
    /\ UNCHANGED <<plan, idx, fallback, outcome, analysis, reply, analysisResponse>>
    /\ UNCHANGED chartVars
    /\ UNCHANGED serviceVars

\* The analysis call settled: main returns parseAnalysisResponse(...) and
\* handleSearch sets it, or the call failed and handleSearch catches.
PageAnalysisSettled(resp) ==
    /\ pc = "page_analyzing"
    /\ analysisResponse' = resp
    /\ IF resp.kind = "http_error" \/ ParseAnalysisResponse(resp).origin = "thrown"
       THEN HandleSearchCatch
       ELSE /\ pc' = "shown"
            /\ outcome' = "returned"
            /\ analysis' = ParseAnalysisResponse(resp)
    /\ UNCHANGED <<plan, idx, fallback, toolResults, modelCalls, reply, toolPromises>>
    /\ UNCHANGED chartVars
    /\ UNCHANGED serviceVars

PageNext ==
    \/ HandleSearch
    \/ \E resp \in SelectionResponses, p \in Plans : PageSelectionSettled(resp, p)
    \/ \E k \in 1..MaxPlan, r \in CallOutcomes : PageToolSettled(k, r)
    \/ \E resp \in AnalysisResponses : PageAnalysisSettled(resp)

PageSpec == Init /\ [][PageNext]_vars

\* ================================================== transformChartData
\* transformChartData of _index.tsx, applied by parseAnalysisResponse to the
\* chart_data of the model's answer.  A point is a record of the four fields
\* the function reads; "" stands for a missing or empty string and 0 for a
\* missing or zero number (both falsy under ||).

MaxItems == 3           \* points of a series drawn freely
LongSeries == 21        \* points of a series generated from a pattern
MaxPasses == 2          \* times the series is fed through the transform

DateTokens == {"2025-01-01", "2025-01-02", "2025-01-03"}
\* a non-empty string that new Date() cannot parse
BadDate == "soon"

\* new Date(d).getTime() of a parseable token, in days since the epoch
GetTime(d) ==
    CASE d = "2025-01-01" -> 20089
      [] d = "2025-01-02" -> 20090
      [] d = "2025-01-03" -> 20091
\* new Date(d).getTime() is NaN
IsNaNTime(d) == d \notin DateTokens

Point(t, d, c, p) == [time |-> t, date |-> d, close |-> c, price |-> p]
\* An output point {date, price}: it has no time and no close field.
DatePrice(d, p) == Point("", d, 0, p)

\* a || b on strings and on numbers
StrOr(a, b) == IF a # "" THEN a ELSE b
NumOr(a, b) == IF a # 0 THEN a ELSE b

\* the callback of .map
MapItem(item) ==
    DatePrice(StrOr(item.time, StrOr(item.date, "")),
              NumOr(item.close, NumOr(item.price, 0)))
\* the callback of .filter
KeepItem(item) == item.date # "" /\ item.price > 0

\* Variant: the comparator subtracts the other way round (descending dates).
CompareDatesDescending(a, b) ==
    IF IsNaNTime(a.date) \/ IsNaNTime(b.date) THEN 0
    ELSE GetTime(b.date) - GetTime(a.date)

\* the comparator of .sort; a NaN difference counts as 0
CompareDates(a, b) ==
    IF IsNaNTime(a.date) \/ IsNaNTime(b.date) THEN 0
    ELSE GetTime(a.date) - GetTime(b.date)

RECURSIVE FilterItems(_)
FilterItems(s) ==
    IF s = <<>> THEN <<>>
    ELSE LET rest == FilterItems(SubSeq(s, 1, Len(s) - 1))
         IN  IF KeepItem(s[Len(s)]) THEN Append(rest, s[Len(s)]) ELSE rest

\* x placed behind the last element that does not sort after it
RECURSIVE InsertSorted(_, _)
InsertSorted(s, x) ==
    IF s = <<>> THEN <<x>>
    ELSE IF CompareDates(s[Len(s)], x) > 0
         THEN Append(InsertSorted(SubSeq(s, 1, Len(s) - 1), x), s[Len(s)])
         ELSE Append(s, x)

\* Array.prototype.sort under a consistent comparator: the stable ascending
\* order, which every conforming engine yields
RECURSIVE StableSort(_)
StableSort(s) ==
    IF s = <<>> THEN <<>>
    ELSE InsertSorted(StableSort(SubSeq(s, 1, Len(s) - 1)), s[Len(s)])

\* The comparator is a consistent comparison function for the elements of s
\* unless an unparseable date (equal to everything) sits beside two
\* parseable dates that differ.
ConsistentComparator(s) ==
    \/ \A i \in 1..Len(s) : ~IsNaNTime(s[i].date)
    \/ \A i, j \in 1..Len(s) : CompareDates(s[i], s[j]) = 0

\* Array.prototype.sort: with an inconsistent comparator the order is
\* implementation-defined, any arrangement of the elements.
SortOutcomes(s) ==
    IF ConsistentComparator(s) THEN {StableSort(s)}
    ELSE {[i \in 1..Len(s) |-> s[p[i]]] : p \in Permutations(1..Len(s))}

\* The arrays transformChartData may return for the argument c.
TransformOutcomes(c) ==
    IF ~c.isArray \/ Len(c.items) = 0 THEN {<<>>}
    ELSE SortOutcomes(FilterItems([i \in 1..Len(c.items) |-> MapItem(c.items[i])]))

\* transformChartData(chartData); the result is the argument of the next call
TransformChartData ==
    /\ passes < MaxPasses
    /\ \E out \in TransformOutcomes(chartData) : chartData' = ArrayOf(out)
    /\ passes' = passes + 1
    /\ UNCHANGED serviceVars
    /\ UNCHANGED <<pc, plan, idx, fallback, toolResults, modelCalls, outcome>>
    /\ UNCHANGED <<analysis, reply, toolPromises, analysisResponse>>

\* chart_data of a model answer
\* (a price alone, a close beside a negative price, or a negative price alone)
Items ==
    {Point(t, d, cp[1], cp[2]) : t \in {"", "2025-01-02"},
                                 d \in {"", "2025-01-01", "2025-01-03", BadDate},
                                 cp \in {<<0, 5>>, <<5, -1>>, <<0, -1>>}}
ShortSeries == UNION {[1..n -> Items] : n \in 0..MaxItems}
\* the date of the i-th of n points: in three ascending blocks, in three
\* descending blocks, or cycling through the days
PatternDate(pat, i, n) ==
    LET k == CASE pat = "ascending" -> ((i - 1) * 3) \div n
               [] pat = "descending" -> 2 - (((i - 1) * 3) \div n)
               [] pat = "cycling" -> (i - 1) % 3
    IN  CASE k = 0 -> "2025-01-01" [] k = 1 -> "2025-01-02" [] k = 2 -> "2025-01-03"
\* n valid points, the i-th closing at price i
PatternSeries(pat, n) == [i \in 1..n |-> Point(PatternDate(pat, i, n), "", i, 0)]
LongInputs ==
    {PatternSeries(pat, n) : pat \in {"ascending", "descending", "cycling"},
                             n \in (LongSeries - 1)..LongSeries}
ChartInputs ==
    {ArrayOf(s) : s \in ShortSeries \cup LongInputs}
        \cup {[isArray |-> FALSE, items |-> <<>>]}

ChartInit ==
    /\ ProgramInit
    /\ chartData \in ChartInputs
    /\ passes = 0

ChartNext == TransformChartData

ChartSpec == ChartInit /\ [][ChartNext]_vars

\* ================================================================ claims

OpenLines == PartialLines \cup {NoLine}

\* C1: a request is completed at most once and its pending entry is removed
\* at most once: a settled promise never changes again and a removed id
\* never re-enters the map, whichever of frame, timer and transport failure
\* comes later.
C1_CompletedAtMostOnce ==
    [][\A i \in Ids :
          /\ Settled(promise[i]) => promise'[i] = promise[i]
          /\ (promise[i].state # "none" /\ i \notin pendingRequests)
                => i \notin pendingRequests'
      ]_vars

\* A frame resolved the request; its timer fired and its POST failed later.
C1_Witness ==
    \E i \in Ids : /\ promise[i].state = "resolved"
                   /\ timer[i] = "fired"
                   /\ post[i] = "failed"

\* C2 (as claimed): a frame without an error field that carries a result and
\* matches a pending request resolves that request with the frame's result,
\* whatever the result value, and removes the id from the pending set.
C2_ResolvesWithResult ==
    [][\A f \in Frames, open \in OpenLines :
          (/\ stream = "streaming"
           /\ f.id \in pendingRequests
           /\ f.error = "absent"
           /\ f.result # "absent"
           /\ SseData(<<f>>, open))
          => /\ promise'[f.id] = Resolved("result", f.result)
             /\ pendingRequests' = pendingRequests \ {f.id}
      ]_vars

\* C3: the timer of a still-pending request rejects it with the timeout
\* error and removes its entry; a frame for that id arriving afterwards
\* changes neither the promises nor the pending set.
C3_TimeoutThenLateFrame ==
    [][\A i \in Ids :
          /\ (timer[i] = "armed" /\ timer'[i] = "fired" /\ i \in pendingRequests)
                => /\ promise'[i] = Rejected("timeout", "absent")
                   /\ pendingRequests' = pendingRequests \ {i}
          /\ \A f \in Frames, open \in OpenLines :
                (/\ f.id = i
                 /\ promise[i].kind = "timeout"
                 /\ stream = "streaming"
                 /\ SseData(<<f>>, open))
                => /\ promise' = promise
                   /\ pendingRequests' = pendingRequests
      ]_vars

\* A request rejected by its timer for which a frame arrived afterwards.
C3_Witness ==
    \E i \in Ids : promise[i] = Rejected("timeout", "absent") /\ i \in dropped

\* C4: while the message endpoint is unknown (no endpoint line captured yet,
\* or after disconnect) makeRequest fails with the not-initialized error, and
\* no step registers a pending entry, hands out an id or sends a POST.
C4_NoRequestWithoutEndpoint ==
    [][/\ ~foundEndpoint => messageEndpoint = NULL
       /\ messageEndpoint = NULL =>
            /\ pendingRequests' \subseteq pendingRequests
            /\ nextId' = nextId
            /\ \A i \in Ids : post[i] = "none" => post'[i] = "none"
            /\ MakeRequest => lastCall' = "not_initialized"
      ]_vars

\* makeRequest failed after disconnect: a request had been sent before.
C4_Witness ==
    /\ lastCall = "not_initialized"
    /\ messageEndpoint = NULL
    /\ sseConnection = "destroyed"
    /\ nextId >= 1

\* C5: a POST answered 200 or 202 leaves the promises and the pending set as
\* they are; a request becomes resolved only in a step of the event stream's
\* 'data' handler.
C5_AcceptedPostLeavesPending ==
    [][\A i \in Ids :
          /\ (post[i] = "sent" /\ post'[i] = "accepted")
                => /\ promise' = promise
                   /\ pendingRequests' = pendingRequests
          /\ (promise[i].state # "resolved" /\ promise'[i].state = "resolved")
                => \E c \in Chunks : SseData(c[1], c[2])
      ]_vars

\* A request whose POST was accepted and that a frame resolved afterwards.
C5_Witness ==
    \E i \in Ids : post[i] = "accepted" /\ promise[i].state = "resolved"

\* C6: a transport failure of a request's POST (failure status, or a
\* connection error) removes its pending entry and rejects the request if
\* nothing completed it before; the other requests are left as they were.
C6_TransportFailureRejects ==
    [][\A i \in Ids :
          (post[i] \in {"sent", "failing"} /\ post'[i] = "failed")
          => /\ pendingRequests' = pendingRequests \ {i}
             /\ promise[i].state = "unsettled"
                   => /\ promise'[i].state = "rejected"
                      /\ promise'[i].kind \in {"post_status", "post_error"}
             /\ promise'[i].state # "unsettled"
             /\ \A j \in Ids \ {i} : promise'[j] = promise[j]
      ]_vars

\* A POST failure rejected one request while another one stayed pending.
C6_Witness ==
    \E i, j \in Ids :
        /\ i # j
        /\ post[i] = "failed"
        /\ promise[i].kind \in {"post_status", "post_error"}
        /\ j \in pendingRequests
        /\ promise[j].state = "unsettled"

\* C7 (as claimed): a frame that carries an error field, whatever its value,
\* and matches a pending request rejects that request and removes it.
C7_AnyErrorFieldRejects ==
    [][\A f \in Frames, open \in OpenLines :
          (/\ stream = "streaming"
           /\ f.id \in pendingRequests
           /\ f.error # "absent"
           /\ SseData(<<f>>, open))
          => /\ promise'[f.id] = Rejected("mcp_error", f.error)
             /\ pendingRequests' = pendingRequests \ {f.id}
      ]_vars

\* C7 (amended): a frame whose error field is truthy and whose id matches a
\* pending request rejects exactly that request with an error wrapping the
\* provider's error, does not resolve it, and removes it from the pending set.
C7_TruthyErrorRejects ==
    [][\A f \in Frames, open \in OpenLines :
          (/\ stream = "streaming"
           /\ f.id \in pendingRequests
           /\ Truthy(f.error)
           /\ SseData(<<f>>, open))
          => /\ promise'[f.id] = Rejected("mcp_error", f.error)
             /\ pendingRequests' = pendingRequests \ {f.id}
             /\ \A j \in Ids \ {f.id} : promise'[j] = promise[j]
      ]_vars

\* A request rejected with the provider's error object.
C7_Witness ==
    \E i \in Ids : promise[i] = Rejected("mcp_error", "errobj")

\* C8: in every state disconnect can be called, it leaves sessionId and
\* messageEndpoint null and the pending set empty, and a second call right
\* after it changes nothing.
C8_DisconnectIdempotent ==
    LET d == DisconnectOf(Session)
    IN  /\ ENABLED ClientDisconnect
        /\ d.sessionId = NULL
        /\ d.messageEndpoint = NULL
        /\ d.pendingRequests = {}
        /\ DisconnectOf(d) = d

\* disconnect has cleared a request that was still pending.
C8_Witness ==
    /\ sseResponse = "destroyed"
    /\ sessionId = NULL
    /\ pendingRequests = {}
    /\ \E i \in Ids : promise[i].state = "unsettled"

\* C9: whenever analyzeCryptocurrency has returned or thrown, disconnect has
\* run: the stream request is destroyed, no response handle is open, and the
\* session id, the message endpoint and the pending set are cleared.
C9_DisconnectedOnExit ==
    pc = "done" =>
        /\ outcome \in {"returned", "thrown"}
        /\ sseConnection = "destroyed"
        /\ sseResponse # "open"
        /\ sessionId = NULL
        /\ messageEndpoint = NULL
        /\ pendingRequests = {}

\* The analysis model call failed after tools had been executed on an
\* established session.
C9_Witness ==
    /\ pc = "done"
    /\ outcome = "thrown"
    /\ modelCalls = 2
    /\ Len(toolResults) = 2
    /\ sseResponse = "destroyed"

\* C10: the promise of initializeConnection becomes resolved only in a step
\* of the 'data' handler after which the text of a line taken as the
\* endpoint announcement is stored in messageEndpoint; it never becomes
\* resolved while messageEndpoint is null.
C10_ResolvesWithEndpoint ==
    [][(initPromise.state # "resolved" /\ initPromise'.state = "resolved")
          => /\ foundEndpoint'
             /\ messageEndpoint' # NULL
             /\ stream = "streaming"
      ]_vars

\* initializeConnection has resolved and the announced endpoint is stored.
C10_Witness ==
    /\ initPromise.state = "resolved"
    /\ foundEndpoint
    /\ messageEndpoint \in Endpoints

C12_DiscoveryFailureIsFatal ==
    [][/\ \A r \in CallOutcomes :
             (r.state = "rejected" /\ ListSettled(r))
             => /\ pc' = "done"
                /\ outcome' = "thrown"
                /\ modelCalls' = 0
                /\ toolResults' = <<>>
       /\ pc \in {"done", "replied"}
             => /\ pc' \in {"done", "replied"}
                /\ modelCalls' = modelCalls
                /\ toolResults' = toolResults
                /\ analysis' = analysis
                /\ (outcome = "thrown" /\ pc' = "replied")
                      => reply' = [success |-> "false", body |-> "error"]
      ]_vars

\* The session was established, tool discovery failed, and the request was
\* answered without any model call.
C12_Witness ==
    /\ pc = "replied"
    /\ initPromise.state = "resolved"
    /\ modelCalls = 0
    /\ outcome = "thrown"
    /\ reply = [success |-> "false", body |-> "error"]
    /\ analysis = NoAnalysis

\* C13 (as claimed): when the tool-selection answer holds no JSON array, or
\* parsing it throws, executeGeminiToolChoices does not fail: it turns to the
\* hardcoded fallback calls ('cryptocurrencies', 'topic').
C13_FallbackOnUnparsableSelection ==
    [][\A resp \in {"no_array", "bad_json"}, p \in Plans :
          PageSelectionSettled(resp, p)
          => /\ outcome' # "thrown"
             /\ plan' = FallbackCalls
      ]_vars

\* C14 (as claimed): toolResults holds exactly one entry for every call that
\* was executed, planned and fallback calls alike, in the order of the
\* calls: the entry names the call's tool and carries its result or its
\* error; no executed call is missing.
C14_OneEntryPerExecutedCall ==
    idx > 0 =>
        /\ Len(toolResults) = idx - 1
        /\ \A k \in 1..Len(toolResults) :
              /\ toolResults[k].tool = plan[k]
              /\ toolResults[k].kind \in {"result", "error"}

\* C15: a planned tool call that fails (provider error or timeout) is
\* recorded with its error and the loop goes on: the remaining planned calls
\* are executed, the analysis model call is issued after the last one, and
\* when that call is answered the request is answered with success true.
C15_ToolFailuresAreNotFatal ==
    [][/\ \A r \in CallOutcomes :
             (r.state = "rejected" /\ ~fallback /\ ToolSettled(r))
             => /\ toolResults' =
                      Append(toolResults,
                             [tool |-> plan[idx], kind |-> "error", val |-> r.kind])
                /\ outcome' = "none"
                /\ IF idx < Len(plan)
                   THEN pc' = "executing" /\ idx' = idx + 1
                   ELSE pc' = "analyzing" /\ modelCalls' = modelCalls + 1
       /\ (pc = "analyzing" /\ pc' = "done" /\ ~AnalysisSettled(HttpError))
             => outcome' = "returned"
       /\ (outcome = "returned" /\ ActionReturns)
             => reply' = [success |-> "true", body |-> "analysis"]
      ]_vars

\* Of two planned calls the first failed and the second succeeded, and the
\* request was answered with success true.
C15_Witness ==
    /\ pc = "replied"
    /\ ~fallback
    /\ Len(plan) = 2
    /\ Len(toolResults) = 2
    /\ toolResults[1].kind = "error"
    /\ toolResults[2].kind = "result"
    /\ reply = [success |-> "true", body |-> "analysis"]

\* C16: a model call answered with a non-success HTTP status, in the
\* tool-selection phase or in the analysis phase, is thrown: no analysis is
\* built, neither parsed nor fallback, and the request is answered with
\* success false and the error.
C16_ModelGatewayErrorIsFatal ==
    [][/\ \A p \in Plans :
             SelectionSettled("http_error", p)
             => /\ pc' = "done"
                /\ outcome' = "thrown"
                /\ toolResults' = <<>>
                /\ analysis' = NoAnalysis
       /\ AnalysisSettled(HttpError)
             => /\ pc' = "done"
                /\ outcome' = "thrown"
                /\ analysis' = NoAnalysis
       /\ (outcome = "thrown" /\ ActionReturns)
             => /\ reply' = [success |-> "false", body |-> "error"]
                /\ analysis' = NoAnalysis
      ]_vars

\* The analysis call failed after two tool calls had been recorded, and the
\* request was answered with success false and no analysis.
C16_Witness ==
    /\ pc = "replied"
    /\ modelCalls = 2
    /\ Len(toolResults) = 2
    /\ outcome = "thrown"
    /\ analysis = NoAnalysis
    /\ reply = [success |-> "false", body |-> "error"]

C18_ParsedAsGiven ==
    (/\ pc = "shown"
     /\ analysisResponse.kind = "text"
     /\ JsonParses(JsonMatch(analysisResponse.text))
     /\ analysisResponse.object.recommendation \in Recommendations
     /\ analysisResponse.object.hasConfidence
     /\ analysisResponse.object.confidence \in 0..100)
    => /\ analysis.recommendation = analysisResponse.object.recommendation
       /\ analysis.confidence = analysisResponse.object.confidence
       /\ analysis.success = "true"

\* C19 (as claimed): the confidence of the analysis parseAnalysisResponse
\* returned is within 0..100: a model confidence above 100 is returned as
\* 100, one below 0 as 0.
C19_ConfidenceClamped ==
    (pc = "shown" /\ outcome = "returned")
    => /\ analysis.confidence \in 0..100
       /\ (analysis.origin = "parsed" /\ analysisResponse.object.hasConfidence)
             => /\ analysisResponse.object.confidence > 100 => analysis.confidence = 100
                /\ analysisResponse.object.confidence < 0 => analysis.confidence = 0

\* C20: parseAnalysisResponse never throws: whatever the answer that reached
\* it (no candidate text, any text, a '{'-opened object cut off), main
\* returns an analysis with success true, which is either parsed from a
\* span that is a valid object or is the fallback analysis.
C20_ParseNeverThrows ==
    (pc = "shown" /\ analysisResponse.kind \in {"text", "no_candidates"})
    => /\ outcome = "returned"
       /\ analysis.success = "true"
       /\ analysis.origin \in {"parsed", "fallback"}
       /\ analysis.origin = "parsed"
             => JsonParses(RepairTruncated(JsonMatch(analysisResponse.text)))
       /\ analysis.origin = "fallback"
             => analysis = FallbackAnalysis("true")

\* An object opened with '{' and cut off inside a string after one complete
\* field was answered with the fallback analysis.
C20_Witness ==
    /\ pc = "shown"
    /\ analysisResponse.kind = "text"
    /\ analysisResponse.text = <<"{", "s", "x">>
    /\ outcome = "returned"
    /\ analysis.origin = "fallback"

\* the points of the argument that survive .map and .filter, in input order
ValidPoints(c) ==
    IF ~c.isArray THEN <<>>
    ELSE FilterItems([i \in 1..Len(c.items) |-> MapItem(c.items[i])])

CeilDiv(a, b) == (a + b - 1) \div b

\* a is b with some elements left out
RECURSIVE IsSubsequence(_, _)
IsSubsequence(a, b) ==
    IF a = <<>> THEN TRUE
    ELSE IF b = <<>> THEN FALSE
    ELSE IF Head(a) = Head(b) THEN IsSubsequence(Tail(a), Tail(b))
    ELSE IsSubsequence(a, Tail(b))

\* C21: for a chart input with N > 20 valid points the series returned by
\* transformChartData has ceil(N / ceil(N/20)) points and is an
\* order-preserving subsequence of the valid input points.
C21_Decimated ==
    [][(passes = 0 /\ TransformChartData /\ Len(ValidPoints(chartData)) > 20)
          => LET n == Len(ValidPoints(chartData))
             IN  /\ Len(chartData'.items) = CeilDiv(n, CeilDiv(n, 20))
                 /\ IsSubsequence(chartData'.items, ValidPoints(chartData))]_vars

\* a series in the form transformChartData returns: {date, price} points,
\* parseable dates in strictly ascending order, positive prices, at most 20
Normalized(c) ==
    /\ c.isArray
    /\ Len(c.items) <= 20
    /\ \A i \in 1..Len(c.items) :
          /\ c.items[i] = DatePrice(c.items[i].date, c.items[i].price)
          /\ ~IsNaNTime(c.items[i].date)
          /\ c.items[i].price > 0
    /\ \A i \in 1..(Len(c.items) - 1) :
          GetTime(c.items[i].date) < GetTime(c.items[i + 1].date)

AllDatesParse(c) == \A i \in 1..Len(c.items) : ~IsNaNTime(c.items[i].date)

C23_FatalRepliesCarrySuccessFalse ==
    (pc = "replied" /\ reply.body \in {"error", "API keys not configured"})
        => reply.success = "false"

\* C24: once a message endpoint has been captured from an endpoint
\* announcement, a later announcement on the same stream does not change it:
\* the stored messageEndpoint stays the first one announced.
C24_FirstEndpointWins ==
    [][(foundEndpoint /\ messageEndpoint \in Endpoints /\ messageEndpoint' \in Endpoints)
          => messageEndpoint' = messageEndpoint]_vars

\* C25: a stream line that looks like a response envelope but is not valid
\* JSON is dropped without effect: the stream keeps being read, the connection
\* is not failed, no request is resolved or rejected, and a well-formed frame
\* handled next still completes the pending request it names, and only it.
C25_MalformedEnvelopeDropped ==
    [][\A open \in OpenLines :
          (stream = "streaming" /\ SseData(<<BadJsonLine>>, open))
          => /\ stream' = "streaming"
             /\ initPromise' = initPromise
             /\ <<sessionId', messageEndpoint', sseConnection', sseResponse'>>
                   = <<sessionId, messageEndpoint, sseConnection, sseResponse>>
             /\ promise' = promise
             /\ pendingRequests' = pendingRequests
             /\ \A f \in Frames :
                   f.id \in pendingRequests'
                   => LET c == ProcessLine([endpoint |-> messageEndpoint',
                                            found |-> foundEndpoint',
                                            pending |-> pendingRequests',
                                            promise |-> promise',
                                            dropped |-> dropped'], f)
                      IN  /\ c.pending = pendingRequests' \ {f.id}
                          /\ Settled(c.promise[f.id])
                          /\ \A j \in Ids \ {f.id} : c.promise[j] = promise'[j]
      ]_vars

\* A malformed envelope line can arrive while a request is awaiting its frame.
C25_Witness ==
    /\ stream = "streaming"
    /\ \E i \in pendingRequests : promise[i].state = "unsettled"
    /\ ENABLED SseData(<<BadJsonLine>>, EndpointLine("/sse/message?a"))

\* C26: the two model calls of an analysis are strictly ordered.  The first
\* call issued is the tool selection; while it is outstanding no second call
\* exists; the analysis call is issued in a step in which the selection has
\* returned and every planned tool call has completed with a result or an
\* error, so that no tool call is outstanding when it is issued.
C26_ModelCallsOrdered ==
    [][/\ modelCalls' \in {modelCalls, modelCalls + 1}
       /\ pc' \in {"selecting", "page_selecting"} => modelCalls' = 1
       /\ (modelCalls = 0 /\ modelCalls' = 1) => pc' \in {"selecting", "page_selecting"}
       /\ (modelCalls = 1 /\ modelCalls' = 2)
             => /\ pc \in {"selecting", "executing", "page_selecting", "gathering"}
                /\ pc' \in {"analyzing", "page_analyzing"}
                /\ pc' = "analyzing" => idx' = Len(plan') + 1
                /\ pc' = "page_analyzing"
                      => /\ Len(toolPromises') = Len(plan')
                         /\ \A k \in 1..Len(toolPromises') :
                               toolPromises'[k].kind \in {"result", "error"}
       /\ modelCalls' <= 2
      ]_vars

\* The analysis call was issued after two concurrent tool calls, one failed.
C26_Witness ==
    /\ pc = "page_analyzing"
    /\ modelCalls = 2
    /\ Len(plan) = 2
    /\ toolPromises[1].kind = "error"
    /\ toolPromises[2].kind = "result"

\* C27: a stream error on an established session destroys the session: after
\* the error neither the session id nor the message endpoint is set, so that
\* no further tool call can be issued on that session.
C27_StreamErrorDestroysSession ==
    [][(SseResponseError /\ sessionId # NULL /\ messageEndpoint # NULL)
          => /\ sessionId' = NULL
             /\ messageEndpoint' = NULL]_vars

\* Request j is after the step what it was before: registered or not, and
\* its promise in the same state.
SameRequest(j) ==
    /\ promise'[j] = promise[j]
    /\ (j \in pendingRequests') = (j \in pendingRequests)

\* C28: completing one request, be it by a response frame, by its timer or
\* by a transport failure of its POST, leaves every other request as it was:
\* its pending entry stays registered and its promise is neither resolved nor
\* rejected; and a frame whose id matches no pending request changes no
\* request at all.  (A frame is one line: a chunk carries one frame or more,
\* each handled by its own handleResponse call.)
FrameIsLocal(f) ==
    LET c == [pending |-> pendingRequests, promise |-> promise]
        h == HandleResponse(c, f)
    IN  /\ \A j \in Ids \ {f.id} :
              /\ h.promise[j] = promise[j]
              /\ (j \in h.pending) = (j \in pendingRequests)
        /\ f.id \notin pendingRequests => h = c

C28_CompletionIsLocal ==
    /\ [](\A f \in Frames : FrameIsLocal(f))
    /\ [][/\ \A i \in Ids :
                (RequestTimeout(i) \/ PostResponseEnd(i) \/ PostError(i))
                => \A j \in Ids \ {i} : SameRequest(j)
          /\ (stream = "streaming" /\ \E j \in Ids : ~SameRequest(j))
                => \A f \in Frames, open \in OpenLines :
                      SseData(<<f>>, open)
                      => /\ f.id \in pendingRequests
                         /\ \A j \in Ids \ {f.id} : SameRequest(j)
         ]_vars

\* One request has been completed while another is still in flight.
C28_Witness ==
    \E i, j \in Ids :
        /\ i # j
        /\ Settled(promise[i])
        /\ i \notin pendingRequests
        /\ j \in pendingRequests
        /\ promise[j].state = "unsettled"

\* Request i was pending when disconnect ran: its entry is gone and its
\* promise is not settled (every other removal settles the promise).
Cleared(i) == promise[i].state = "unsettled" /\ i \notin pendingRequests

\* handleResponse ignores every frame that carries the id i.
FrameIgnored(i) ==
    LET c == [pending |-> pendingRequests, promise |-> promise]
    IN  \A f \in Frames : f.id = i => HandleResponse(c, f) = c

\* C29 (as stated): disconnect removes a pending request from the pending
\* set without completing it, and the request is never resolved or rejected
\* afterwards: a frame with its id is ignored and its timer does nothing.
C29_ClearedNeverCompleted ==
    [][\A i \in Ids :
          /\ (ClientDisconnect /\ i \in pendingRequests)
                => (i \notin pendingRequests' /\ promise'[i] = promise[i])
          /\ Cleared(i)
                => /\ promise'[i] = promise[i]
                   /\ i \notin pendingRequests'
                   /\ FrameIgnored(i)
      ]_vars

\* C29 (amended): disconnect removes a pending request from the pending set
\* without completing it; afterwards the request is never resolved and never
\* registered again, a frame with its id is ignored and its timer does
\* nothing; the one completion still possible is a rejection by a failure of
\* its own POST (request error, or the end of a failure-status response).
C29_ClearedOnlyFailsByTransport ==
    [][\A i \in Ids :
          /\ (ClientDisconnect /\ i \in pendingRequests)
                => (i \notin pendingRequests' /\ promise'[i] = promise[i])
          /\ Cleared(i)
                => /\ i \notin pendingRequests'
                   /\ FrameIgnored(i)
                   /\ RequestTimeout(i) => promise' = promise
                   /\ promise'[i] # promise[i]
                         => /\ PostError(i) \/ PostResponseEnd(i)
                            /\ promise'[i] \in {Rejected("post_error", "absent"),
                                                Rejected("post_status", "absent")}
      ]_vars

\* The timer of a request cleared by disconnect has fired and done nothing.
C29_Witness ==
    \E i \in Ids : Cleared(i) /\ timer[i] = "fired"

\* The entry the for loop of the service's executeGeminiToolChoices pushes
\* for a planned call that ended with outcome r.
SequentialEntry(tool, r) ==
    IF r.state = "resolved"
    THEN [tool |-> tool, kind |-> "result", val |-> r.val]
    ELSE [tool |-> tool, kind |-> "error", val |-> r.kind]

\* C30: in the concurrent executeGeminiToolChoices the k-th entry belongs to
\* the k-th planned call whatever the order in which the calls complete: a
\* completing call fills its own position with the entry the sequential
\* loop pushes for the same call and outcome and leaves the other positions
\* alone, and the toolResults handed on are these entries in plan order.
C30_EntriesInPlanOrder ==
    [][/\ \A k \in 1..MaxPlan, r \in CallOutcomes :
             PageToolSettled(k, r)
             => /\ toolPromises'[k] = SequentialEntry(plan[k], r)
                /\ \A m \in 1..Len(toolPromises) \ {k} : toolPromises'[m] = toolPromises[m]
       /\ (pc # "page_analyzing" /\ pc' = "page_analyzing")
             => /\ toolResults' = toolPromises'
                /\ Len(toolResults') = Len(plan')
                /\ \A k \in 1..Len(plan') :
                      /\ toolResults'[k].tool = plan'[k]
                      /\ toolResults'[k].kind \in {"result", "error"}
      ]_vars

\* The second of two different planned calls has completed before the first.
C30_Witness ==
    /\ pc = "gathering"
    /\ Len(plan) = 2
    /\ plan[1] # plan[2]
    /\ toolPromises[1].kind = "pending"
    /\ toolPromises[2] = SequentialEntry(plan[2], Rejected("timeout", "absent"))

====
